---- MODULE Spec2Model ----
(***************************************************************************)
(* The uWebSockets.js adapter of hattip                                    *)
(* (packages/adapter/adapter-uwebsockets/src/common.ts): createServer's    *)
(* per-request callback, handleError, finish and ipAddressBytesToString.   *)
(*                                                                         *)
(* Text is a sequence of tokens (strings); "," and " " are the separator   *)
(* and the whitespace that split(",", 1) and trim() look at, numbers are   *)
(* rendered digit by digit.  The empty sequence is the empty string, and   *)
(* also stands for undefined/null wherever the code only tests truthiness. *)
(***************************************************************************)
EXTENDS Integers, Sequences, FiniteSets, TLC

(* ------------------------------ bounds --------------------------------- *)

\* requests delivered to one server over a behaviour
MaxRequests == 2
\* chunks a response body stream yields
MaxChunks == 3
\* chunks a request body arrives in
MaxBodyChunks == 2

\* A slot is one run of the per-request callback with its own res, req and
\* local variables: the k-th request the engine delivers runs in slot k, and
\* what the run left behind (res, aborted, the body stream) stays as it is
\* when later requests arrive.
Slots == 1..MaxRequests

(* ------------------------------- text ---------------------------------- *)

Digits == <<"0", "1", "2", "3", "4", "5", "6", "7", "8", "9",
            "a", "b", "c", "d", "e", "f">>

RECURSIVE NumberToString(_, _)
\* Number.prototype.toString(radix): no padding, lowercase digits
NumberToString(n, radix) ==
    IF n < radix
    THEN <<Digits[n + 1]>>
    ELSE NumberToString(n \div radix, radix) \o <<Digits[(n % radix) + 1]>>

RECURSIVE SplitFirst(_)
\* String.prototype.split(",", 1)[0]: what precedes the first comma
SplitFirst(t) ==
    IF t = <<>> \/ Head(t) = ","
    THEN <<>>
    ELSE <<Head(t)>> \o SplitFirst(Tail(t))

RECURSIVE TrimStart(_)
TrimStart(t) ==
    IF t # <<>> /\ Head(t) = " " THEN TrimStart(Tail(t)) ELSE t

RECURSIVE TrimEnd(_)
TrimEnd(t) ==
    IF t # <<>> /\ t[Len(t)] = " " THEN TrimEnd(SubSeq(t, 1, Len(t) - 1)) ELSE t

\* String.prototype.trim()
Trim(t) == TrimEnd(TrimStart(t))

\* JavaScript a || b on strings: the empty string (and undefined) is falsy
OrElse(a, b) == IF a # <<>> THEN a ELSE b

(* ------------------------------ headers -------------------------------- *)

\* A Headers object is the sequence of <<name, value>> pairs appended to it.

RECURSIVE HeaderValues(_, _)
\* the values appended under a name, in order; Headers.prototype.append
\* stores a value without its leading and trailing whitespace
HeaderValues(h, name) ==
    IF h = <<>> THEN <<>>
    ELSE (IF Head(h)[1] = name THEN <<Trim(Head(h)[2])>> ELSE <<>>)
         \o HeaderValues(Tail(h), name)

RECURSIVE JoinValues(_)
JoinValues(vs) ==
    IF Len(vs) = 0 THEN <<>>
    ELSE IF Len(vs) = 1 THEN vs[1]
    ELSE vs[1] \o <<",", " ">> \o JoinValues(Tail(vs))

\* Headers.prototype.get: the values under the name joined by ", "; null
\* (here the empty text) when the name is absent
HeadersGet(h, name) == JoinValues(HeaderValues(h, name))

(* ------------------------- ipAddressBytesToString ----------------------- *)

\* getUint16 reading the low byte first
GetUint16LittleEndian(view, i) == view[i + 2] * 256 + view[i + 1]

\* DataView.getUint16 (big endian) at a 0-based offset
GetUint16(view, i) == view[i + 1] * 256 + view[i + 2]

\* an unsigned 32-bit number, written as its high and its low 16 bits
Uint32(high, low) == <<high, low>>

\* DataView.getUint32 (big endian) at a 0-based offset
GetUint32(view, i) == Uint32(GetUint16(view, i), GetUint16(view, i + 2))

RECURSIVE DottedQuad(_, _)
DottedQuad(view, i) ==
    IF i >= 4 THEN <<>>
    ELSE NumberToString(view[i + 1], 10)
         \o (IF i < 3 THEN <<".">> ELSE <<>>)
         \o DottedQuad(view, i + 1)

RECURSIVE ColonHex(_, _)
ColonHex(view, i) ==
    IF i >= 16 THEN <<>>
    ELSE NumberToString(GetUint16(view, i), 16)
         \o (IF i < 14 THEN <<":">> ELSE <<>>)
         \o ColonHex(view, i + 2)

ipAddressBytesToString(bytes) ==
    LET view == IF /\ Len(bytes) = 16
                   /\ GetUint32(bytes, 0) = Uint32(0, 0)
                   /\ GetUint32(bytes, 4) = Uint32(0, 0)
                   /\ GetUint32(bytes, 8) = Uint32(0, 65535)
                THEN SubSeq(bytes, 13, 16)
                ELSE bytes
    IN  IF Len(view) = 4 THEN DottedQuad(view, 0)
        ELSE IF Len(view) = 16 THEN ColonHex(view, 0)
        ELSE <<>>

(* ------------------------------ inputs --------------------------------- *)

\* adapterOptions.origin; <<>> is "not set".  An origin is written as the
\* tokens scheme, ":", "//", host name, then optionally ":" and a port, then
\* optionally a path.
Origins ==
    { <<>>,
      <<"https", ":", "//", "cfg.example">>,
      <<"HTTPS", ":", "//", "CFG.example", "/">>,
      <<"https", ":", "//", "cfg.example", ":", "443">>,
      <<"http", ":", "//", "cfg.example", ":", "8443", "/base">> }

\* req.getCaseSensitiveMethod()
Methods == {"GET", "POST", "TRACE", "get", "post"}

\* res.getRemoteAddress(): nothing, IPv4, IPv4-mapped IPv6, IPv6
RemoteAddresses ==
    { <<>>,
      <<127, 0, 0, 1>>,
      <<0, 0, 0, 0, 0, 0, 0, 0, 0, 0, 255, 255, 10, 0, 2, 15>>,
      <<32, 1, 13, 184, 0, 0, 0, 0, 0, 0, 0, 0, 0, 0, 0, 1>> }

\* tokens that only x-forwarded-* headers carry
ForwardedTokens == {"wss", "evil.example", "1.2.3.4", "5.6.7.8", "ftp", "proxy.example"}

\* header lists of a request, as req.forEach enumerates them
RequestHeaderLists ==
    { <<>>,
      << <<"host", <<"a.example">> >> >>,
      << <<"host", <<"b.example">> >> >>,
      << <<"host", <<"a.example", ":", "80">> >> >>,
      << <<"host", <<"A.EXAMPLE", ":", "0", "8", "0", "8", "0">> >> >>,
      << <<"host", <<"a.example">> >>,
         <<"x-forwarded-proto", <<"wss", ",", "ftp">> >>,
         <<"x-forwarded-host", <<" ", "evil.example", " ", ",", "proxy.example">> >>,
         <<"x-forwarded-for", <<"1.2.3.4", ",", " ", "5.6.7.8">> >> >>,
      << <<"x-forwarded-proto", <<",", "wss">> >>,
         <<"x-forwarded-host", <<"evil.example">> >>,
         <<"x-forwarded-host", <<"proxy.example">> >>,
         <<"x-forwarded-for", <<",", "5.6.7.8">> >> >> }

\* req.getUrl(): a path is written as the token "/" before each segment
Paths == { <<"/">>, <<"/", "echo">>, <<"/", "a", "/", "..", "/", "echo">> }
Queries == { <<>>, <<"foo=bar">> }

\* what the engine hands to the callback for one request
NativeRequests ==
    [method : Methods, headers : RequestHeaderLists, path : Paths,
     query : Queries, remote : RemoteAddresses]

\* a request with nothing in it
BlankRequest ==
    [method |-> "GET", headers |-> <<>>, path |-> <<"/">>, query |-> <<>>,
     remote |-> <<>>]

(* -------------------------- origin resolution -------------------------- *)

\* ports written as one token
PortTokens == {"80", "443", "8443"}

RECURSIVE DecimalValue(_)
\* the number a text of decimal digits denotes, 65536 standing for every
\* larger one
DecimalValue(t) ==
    IF t = <<>> THEN 0
    ELSE LET front == DecimalValue(SubSeq(t, 1, Len(t) - 1))
             digit == CHOOSE d \in 0..9 : Digits[d + 1] = t[Len(t)]
             value == front * 10 + digit
         IN  IF value > 65535 THEN 65536 ELSE value

\* the text is made of decimal digits
IsDecimal(t) == \A i \in 1..Len(t) : \E d \in 0..9 : Digits[d + 1] = t[i]

\* the number of a port: of a port token, or of a text of decimal digits
PortValue(t) ==
    IF Len(t) = 1 /\ t[1] \in PortTokens
    THEN CASE t[1] = "80" -> 80 [] t[1] = "443" -> 443 [] t[1] = "8443" -> 8443
    ELSE DecimalValue(t)

\* the URL parser's ASCII lowercase of a scheme or host name
ToLowerCase(token) ==
    CASE token = "HTTPS" -> "https"
      [] token = "HTTP" -> "http"
      [] token = "WSS" -> "wss"
      [] token = "CFG.example" -> "cfg.example"
      [] token = "A.EXAMPLE" -> "a.example"
      [] OTHER -> token

\* the number of the port the URL parser drops for a scheme, -1 for none
DefaultPort(scheme) ==
    CASE scheme \in {"https", "wss"} -> 443
      [] scheme \in {"http", "ws"} -> 80
      [] scheme = "ftp" -> 21
      [] OTHER -> -1

\* new URL(origin).protocol, e.g. "https:": the scheme in lower case
UrlProtocol(o) == <<ToLowerCase(o[1]), ":">>

\* new URL(origin).host: the host name in lower case, with the port unless
\* it is the scheme's default one, and without the path
UrlHost(o) ==
    <<ToLowerCase(o[4])>>
    \o (IF Len(o) >= 6 /\ o[5] = ":" /\ PortValue(<<o[6]>>) # DefaultPort(ToLowerCase(o[1]))
        THEN <<":", o[6]>>
        ELSE <<>>)

\* the closure variable protocol after construction: the origin's protocol
\* without its trailing colon, undefined without an origin
ConstructedProtocol(o) ==
    IF o # <<>> THEN SubSeq(UrlProtocol(o), 1, Len(UrlProtocol(o)) - 1) ELSE <<>>

\* the closure variable host after construction
ConstructedHost(o) == IF o # <<>> THEN UrlHost(o) ELSE <<>>

\* getForwardedHeader(name)
getForwardedHeader(headers, name) ==
    Trim(SplitFirst(OrElse(HeadersGet(headers, "x-forwarded-" \o name), <<>>)))

\* the forwarded header used whatever trustProxy says
TrustedForwardedAlways(trust, headers, name) == getForwardedHeader(headers, name)

\* trustProxy && getForwardedHeader(name)
TrustedForwarded(trust, headers, name) ==
    IF trust THEN getForwardedHeader(headers, name) ELSE <<>>

\* protocol = protocol || (trustProxy && ...) || (ssl && "https") || "http"
ResolveProtocol(proto, trust, tls, headers) ==
    OrElse(proto,
        OrElse(TrustedForwarded(trust, headers, "proto"),
            IF tls THEN <<"https">> ELSE <<"http">>))

\* host = host || (trustProxy && ...) || headers.get("host") || ipAddress,
\* then "localhost" when still empty
ResolveHost(h, trust, headers, ipAddress) ==
    LET found == OrElse(h,
                    OrElse(TrustedForwarded(trust, headers, "host"),
                        OrElse(HeadersGet(headers, "host"), ipAddress)))
    IN  IF found = <<>> THEN <<"localhost">> ELSE found

\* the peer address preferred to the forwarded header
ResolveIpPeerFirst(trust, headers, ipAddress) ==
    OrElse(ipAddress, OrElse(TrustedForwarded(trust, headers, "for"), <<>>))

\* ip = (trustProxy && getForwardedHeader("for")) || ipAddress || ""
ResolveIp(trust, headers, ipAddress) ==
    OrElse(TrustedForwarded(trust, headers, "for"), OrElse(ipAddress, <<>>))

\* url = protocol + "://" + host + path + (query ? "?" + query : "")
BuildUrl(proto, h, path, query) ==
    proto \o <<"://">> \o h \o path
    \o (IF query # <<>> THEN <<"?">> \o query ELSE <<>>)

(* -------------------------- the Request object ------------------------- *)

\* the method in upper case, as new Request compares it
ToUpperCase(method) ==
    CASE method = "get" -> "GET"
      [] method = "head" -> "HEAD"
      [] method = "post" -> "POST"
      [] method = "put" -> "PUT"
      [] method = "delete" -> "DELETE"
      [] method = "options" -> "OPTIONS"
      [] method = "patch" -> "PATCH"
      [] method = "trace" -> "TRACE"
      [] method = "connect" -> "CONNECT"
      [] method = "track" -> "TRACK"
      [] OTHER -> method

\* request.method: new Request writes the methods DELETE, GET, HEAD, OPTIONS,
\* POST and PUT in upper case and leaves every other method as it was given
RequestMethod(method) ==
    IF ToUpperCase(method) \in {"DELETE", "GET", "HEAD", "OPTIONS", "POST", "PUT"}
    THEN ToUpperCase(method)
    ELSE method

\* the URL parser accepts the text after the host's colon as a port: nothing,
\* or decimal digits that denote at most 65535
IsPort(t) ==
    \/ t = <<>>
    \/ Len(t) = 1 /\ t[1] \in PortTokens
    \/ IsDecimal(t) /\ PortValue(t) <= 65535

\* the URL parser accepts the host of the url: no whitespace in it, and at
\* most one colon, followed by a port.  An IPv6 address without brackets,
\* as ipAddressBytesToString writes it, is not accepted.
HostParses(h) ==
    LET colons == {i \in 1..Len(h) : h[i] = ":"}
    IN  /\ h # <<>>
        /\ h[1] # ":"
        /\ \A i \in 1..Len(h) : h[i] # " "
        /\ Cardinality(colons) <= 1
        /\ \A i \in colons : IsPort(SubSeq(h, i + 1, Len(h)))

\* new Request(url, {method, headers, body}) throws a TypeError when the url
\* does not parse, for the methods the fetch standard forbids, and for a GET
\* or HEAD request that is given a body (the code gives a body unless the
\* method is exactly "GET" or "HEAD")
RequestThrows(method, h) ==
    \/ ~HostParses(h)
    \/ ToUpperCase(method) \in {"TRACE", "CONNECT", "TRACK"}
    \/ ToUpperCase(method) \in {"GET", "HEAD"} /\ method \notin {"GET", "HEAD"}

RECURSIVE SplitAll(_, _)
\* the fields of a text between occurrences of a separator
SplitAll(t, sep) ==
    IF t = <<>> THEN << <<>> >>
    ELSE LET rest == SplitAll(Tail(t), sep)
         IN  IF Head(t) = sep
             THEN << <<>> >> \o rest
             ELSE << <<Head(t)>> \o Head(rest) >> \o Tail(rest)

RECURSIVE ResolveSegments(_, _)
\* the URL parser's walk over the segments of a path: ".." drops the segment
\* before it, "." is skipped, and either of them at the end of the path
\* leaves an empty last segment
ResolveSegments(segments, kept) ==
    IF segments = <<>> THEN kept
    ELSE LET segment == Head(segments)
             closing == IF Len(segments) = 1 THEN << <<>> >> ELSE <<>>
         IN  IF segment = <<"..">>
             THEN ResolveSegments(Tail(segments),
                      (IF kept # <<>> THEN SubSeq(kept, 1, Len(kept) - 1) ELSE kept)
                      \o closing)
             ELSE IF segment = <<".">>
             THEN ResolveSegments(Tail(segments), kept \o closing)
             ELSE ResolveSegments(Tail(segments), Append(kept, segment))

RECURSIVE JoinSegments(_)
\* the segments of a path written out, each after a "/"
JoinSegments(segments) ==
    IF segments = <<>> THEN <<>>
    ELSE <<"/">> \o Head(segments) \o JoinSegments(Tail(segments))

\* the path of a parsed url; a path is written as the token "/" before each
\* of its segments.  An empty path is "/".
UrlPath(path) ==
    JoinSegments(ResolveSegments(
        IF path = <<>> THEN << <<>> >> ELSE SplitAll(Tail(path), "/"), <<>>))

\* the host of a parsed url: the name in lower case, then the port unless it
\* is empty or the default one of the scheme
UrlAuthority(scheme, authority) ==
    LET colons == {i \in 1..Len(authority) : authority[i] = ":"}
        nameEnd == IF colons = {} THEN Len(authority)
                   ELSE (CHOOSE i \in colons : \A j \in colons : i <= j) - 1
        port == SubSeq(authority, nameEnd + 2, Len(authority))
    IN  [i \in 1..nameEnd |-> ToLowerCase(authority[i])]
        \o (IF port = <<>> \/ PortValue(port) = DefaultPort(scheme)
            THEN <<>>
            ELSE IF Len(port) = 1 THEN <<":">> \o port
            ELSE <<":">> \o NumberToString(PortValue(port), 10))

\* request.url: the url new Request was given, parsed and written out again
\* (for the schemes http, https, ws, wss and ftp, which are the ones the
\* callback can build)
RequestUrl(u) ==
    LET mark == CHOOSE i \in 1..Len(u) : u[i] = "://" /\ \A j \in 1..(i - 1) : u[j] # "://"
        scheme == [i \in 1..(mark - 1) |-> ToLowerCase(u[i])]
        rest == SubSeq(u, mark + 1, Len(u))
        stops == {i \in 1..Len(rest) : rest[i] \in {"/", "?"}}
        hostEnd == IF stops = {} THEN Len(rest)
                   ELSE (CHOOSE i \in stops : \A j \in stops : i <= j) - 1
        tail == SubSeq(rest, hostEnd + 1, Len(rest))
        marks == {i \in 1..Len(tail) : tail[i] = "?"}
        pathEnd == IF marks = {} THEN Len(tail)
                   ELSE (CHOOSE i \in marks : \A j \in marks : i <= j) - 1
    IN  scheme \o <<"://">>
        \o UrlAuthority(scheme[1], SubSeq(rest, 1, hostEnd))
        \o UrlPath(SubSeq(tail, 1, pathEnd))
        \o SubSeq(tail, pathEnd + 1, Len(tail))

(* ----------------------------- responses -------------------------------- *)

\* Response header lists, as the handler appended them
ResponseHeaderLists ==
    { <<>>,
      << <<"content-type", <<"text/plain">> >> >>,
      << <<"set-cookie", <<"name1=value1">> >>,
         <<"content-type", <<"text/plain">> >>,
         <<"set-cookie", <<"name2=value2">> >> >>,
      << <<"vary", <<"accept">> >>, <<"vary", <<"origin">> >> >> }

\* the header names in the order Headers.prototype.keys() sorts them
HeaderNameOrder == <<"content-type", "set-cookie", "vary">>

\* a Response: status, statusText, headers, and whether response.body is a
\* stream (TRUE) or null (FALSE)
Responses ==
    [status : {200, 403}, statusText : { <<>>, <<"OK">> },
     headers : ResponseHeaderLists, body : BOOLEAN]

\* the chunks a response body stream may yield; <<>> is an empty Uint8Array,
\* which is an object and so truthy like any other chunk
Chunks == { <<"A">>, <<>> }

\* one native call on res: the method, the header name (writeHeader only),
\* the other arguments (texts or chunks), whether the call returned normally,
\* the value of the aborted flag when it was made, and whether it ran inside
\* a cork callback
NativeCall(op, name, args, corked) ==
    [op |-> op, name |-> name, args |-> args, ok |-> TRUE, aborted |-> FALSE,
     corked |-> corked]

\* the calls of a straight-line block made while the flag is ab, where call
\* number fail (0: none) throws and ends the block
Performed(ops, fail, ab) ==
    [i \in 1..(IF fail = 0 THEN Len(ops) ELSE fail) |->
        [ops[i] EXCEPT !.ok = (i # fail), !.aborted = ab]]

\* `${response.status}${response.statusText ? " " + response.statusText : ""}`
StatusLine(response) ==
    NumberToString(response.status, 10)
    \o (IF response.statusText # <<>> THEN <<" ">> \o response.statusText ELSE <<>>)

\* new Set(response.headers.keys())
UniqueHeaderNames(headers) ==
    SelectSeq(HeaderNameOrder, LAMBDA n : HeaderValues(headers, n) # <<>>)

\* the set-cookie values written as one joined line
SetCookieCallsJoined(values) ==
    IF values = <<>> THEN <<>>
    ELSE <<NativeCall("writeHeader", "set-cookie", <<JoinValues(values)>>, TRUE)>>

RECURSIVE SetCookieCalls(_)
\* for (const value of response.headers.getSetCookie()) res.writeHeader(name, value)
SetCookieCalls(values) ==
    IF values = <<>> THEN <<>>
    ELSE <<NativeCall("writeHeader", "set-cookie", <<Head(values)>>, TRUE)>>
         \o SetCookieCalls(Tail(values))

RECURSIVE HeaderCalls(_, _)
\* the loop over uniqueHeaderNames
HeaderCalls(headers, names) ==
    IF names = <<>> THEN <<>>
    ELSE (IF Head(names) = "set-cookie"
          THEN SetCookieCalls(HeaderValues(headers, "set-cookie"))
          ELSE <<NativeCall("writeHeader", Head(names),
                            <<HeadersGet(headers, Head(names))>>, TRUE)>>)
         \o HeaderCalls(headers, Tail(names))

\* if (!response.body) res.end()
EndIfNoBody(response) ==
    IF ~response.body THEN <<NativeCall("end", "", <<>>, TRUE)>> ELSE <<>>

\* the status line in one cork and the headers in a second one
HeadCallsInTwoCorks(response) ==
    <<NativeCall("cork", "", <<>>, FALSE),
      NativeCall("writeStatus", "", <<StatusLine(response)>>, TRUE),
      NativeCall("cork", "", <<>>, FALSE)>>
    \o HeaderCalls(response.headers, UniqueHeaderNames(response.headers))
    \o EndIfNoBody(response)

\* the first cork of finish: status line, headers, and end() without a body
HeadCalls(response) ==
    <<NativeCall("cork", "", <<>>, FALSE),
      NativeCall("writeStatus", "", <<StatusLine(response)>>, TRUE)>>
    \o HeaderCalls(response.headers, UniqueHeaderNames(response.headers))
    \o EndIfNoBody(response)

\* the loop body: if (lastChunk) res.cork(() => res.write(lastChunk))
\* (held is <<>> for undefined, <<c>> for the chunk c; any chunk is truthy)
WriteHeldCalls(held) ==
    IF held # <<>>
    THEN <<NativeCall("cork", "", <<>>, FALSE),
           NativeCall("write", "", <<held[1]>>, TRUE)>>
    ELSE <<>>

\* the held chunk flushed by write instead of end
EndHeldCallsAsWrite(held) ==
    IF held # <<>>
    THEN <<NativeCall("cork", "", <<>>, FALSE),
           NativeCall("write", "", <<held[1]>>, TRUE)>>
    ELSE <<>>

\* after the loop: if (lastChunk) res.cork(() => res.end(lastChunk))
EndHeldCalls(held) ==
    IF held # <<>>
    THEN <<NativeCall("cork", "", <<>>, FALSE),
           NativeCall("end", "", <<held[1]>>, TRUE)>>
    ELSE <<>>

\* handleError: nothing when aborted, else writeStatus("500 ...") and end()
ErrorCalls ==
    <<NativeCall("writeStatus", "", << <<"5", "0", "0", " ", "Internal Server Error">> >>, FALSE),
      NativeCall("end", "", <<>>, FALSE)>>

\* handleError without its first line
handleErrorWithoutAbortCheck(ab, fail) == Performed(ErrorCalls, fail, ab)

handleError(ab, fail) ==
    IF ab THEN <<>> ELSE Performed(ErrorCalls, fail, ab)

(* ------------------------------- state ---------------------------------- *)

VARIABLES
    origin,         \* adapterOptions.origin
    trustProxy,     \* adapterOptions.trustProxy
    ssl,            \* adapterOptions.ssl
    protocol,       \* createServer's variable protocol
    host,           \* createServer's variable host
    served,         \* requests the engine has delivered so far
    \* each of the following maps a slot to the value in that run
    pc,             \* where the request's callback chain stands
    aborted,        \* the callback's variable aborted
    request,        \* what the engine delivered for the request
    url,            \* the callback's constant url
    ip,             \* the callback's constant ip
    handlerCalls,   \* the contexts the handler was invoked with
    outcome,        \* how the handler's result became available
    response,       \* the Response finish was given
    produced,       \* the chunks response.body has yielded so far
    bodyEnd,        \* "open", or how response.body finished
    lastChunk,      \* finish's variable lastChunk: <<>> or <<chunk>>
    calls,          \* the native calls made on res, in order
    abortedAt,      \* pc when the abort callback fired, "never" before
    stream,         \* the request body ReadableStream: "none" or its state
    queue,          \* the chunks enqueued and not read yet, by delivery number
    reader,         \* the consumer: "idle", "pending" (a read waits), "done"
    reads,          \* what the consumer's reads returned, in order
    delivered,      \* the bytes of each native data callback, in order
    buffers,        \* what each native chunk's ArrayBuffer holds now
    lastSeen,       \* the data callback has been called with isLast
    dataThrew       \* the data callback has thrown

options == <<origin, trustProxy, ssl>>
closure == <<protocol, host>>
perRequest == <<pc, aborted, request, url, ip, handlerCalls, outcome, response,
                produced, bodyEnd, lastChunk, calls, abortedAt>>
requestBody == <<stream, queue, reader, reads, delivered, buffers, lastSeen,
                 dataThrew>>
vars == <<options, closure, served, perRequest, requestBody>>

NoResponse == [status |-> 0, statusText |-> <<>>, headers |-> <<>>, body |-> FALSE]

\* res.end has been called and returned
ResponseEnded(s) ==
    \E i \in 1..Len(calls[s]) : calls[s][i].op = "end" /\ calls[s][i].ok

\* nothing has been delivered yet
NoRequestYet ==
    /\ served = 0
    /\ pc = [s \in Slots |-> "idle"]
    /\ aborted = [s \in Slots |-> FALSE]
    /\ request = [s \in Slots |-> BlankRequest]
    /\ url = [s \in Slots |-> <<>>]
    /\ ip = [s \in Slots |-> <<>>]
    /\ handlerCalls = [s \in Slots |-> <<>>]
    /\ outcome = [s \in Slots |-> "none"]
    /\ response = [s \in Slots |-> NoResponse]
    /\ produced = [s \in Slots |-> <<>>]
    /\ bodyEnd = [s \in Slots |-> "open"]
    /\ lastChunk = [s \in Slots |-> <<>>]
    /\ calls = [s \in Slots |-> <<>>]
    /\ abortedAt = [s \in Slots |-> "never"]
    /\ stream = [s \in Slots |-> "none"]
    /\ queue = [s \in Slots |-> <<>>]
    /\ reader = [s \in Slots |-> "idle"]
    /\ reads = [s \in Slots |-> <<>>]
    /\ delivered = [s \in Slots |-> <<>>]
    /\ buffers = [s \in Slots |-> <<>>]
    /\ lastSeen = [s \in Slots |-> FALSE]
    /\ dataThrew = [s \in Slots |-> FALSE]

\* createServer with the default options: no origin, no trustProxy, no ssl
Init ==
    /\ origin = <<>>
    /\ trustProxy = FALSE
    /\ ssl = FALSE
    /\ protocol = ConstructedProtocol(origin)
    /\ host = ConstructedHost(origin)
    /\ NoRequestYet

\* createServer with any options
InitOrigin ==
    /\ origin \in Origins
    /\ trustProxy \in BOOLEAN
    /\ ssl \in BOOLEAN
    /\ protocol = ConstructedProtocol(origin)
    /\ host = ConstructedHost(origin)
    /\ NoRequestYet

(* ------------------------------ actions --------------------------------- *)

\* finish without its first line
finishWithoutAbortCheck(ab, rsp, fail, efail) ==
    IF fail # 0
    THEN [calls |-> Performed(HeadCalls(rsp), fail, ab) \o handleError(ab, efail),
          pc |-> "closed"]
    ELSE [calls |-> Performed(HeadCalls(rsp), 0, ab),
          pc |-> IF rsp.body THEN "streaming" ELSE "closed"]

\* finish(response) up to its first await: what it calls and where it stops
finish(ab, rsp, fail, efail) ==
    IF ab
    THEN [calls |-> <<>>, pc |-> "closed"]
    ELSE IF fail # 0
    THEN [calls |-> Performed(HeadCalls(rsp), fail, ab) \o handleError(ab, efail),
          pc |-> "closed"]
    ELSE [calls |-> Performed(HeadCalls(rsp), 0, ab),
          pc |-> IF rsp.body THEN "streaming" ELSE "closed"]

\* the context object handed to the handler: request is new Request(url,
\* {method, ...}), of which the handler sees the url and the method as the
\* Request object gives them back
Context(reqIp, reqUrl, method, id) ==
    [ip |-> reqIp, url |-> RequestUrl(reqUrl), method |-> RequestMethod(method),
     platform |-> id]

\* the slots whose run of the callback has not started
FreeSlots == {s \in Slots : pc[s] = "idle"}

\* app.any("/*", (res, req) => ...): the engine delivers a request, whatever
\* the earlier requests are doing or have left behind; it runs in the first
\* slot not yet used.  h is what the handler does: "throw", "return" (a
\* Response) or "promise".
NewRequest(s, inp, h, rsp, fail, efail) ==
    /\ served < MaxRequests
    /\ s \in FreeSlots
    /\ \A t \in FreeSlots : s <= t
    /\ LET ipAddress == ipAddressBytesToString(inp.remote)
           proto == ResolveProtocol(protocol, trustProxy, ssl, inp.headers)
           hst == ResolveHost(host, trustProxy, inp.headers, ipAddress)
           reqIp == ResolveIp(trustProxy, inp.headers, ipAddress)
           reqUrl == BuildUrl(proto, hst, inp.path, inp.query)
           invoked == ~RequestThrows(inp.method, hst)
           fin == finish(FALSE, rsp, fail, efail)
       IN  /\ protocol' = proto
           /\ host' = hst
           /\ url' = [url EXCEPT ![s] = reqUrl]
           /\ ip' = [ip EXCEPT ![s] = reqIp]
           /\ handlerCalls' = [handlerCalls EXCEPT ![s] = 
                 IF invoked
                 THEN <<Context(reqIp, reqUrl, inp.method, served + 1)>>
                 ELSE <<>>]
           /\ IF ~invoked \/ h = "throw"
              THEN /\ outcome' = [outcome EXCEPT ![s] = (IF invoked THEN "threw" ELSE "invalid")]
                   /\ calls' = [calls EXCEPT ![s] = handleError(FALSE, efail)]
                   /\ pc' = [pc EXCEPT ![s] = "closed"]
                   /\ response' = [response EXCEPT ![s] = NoResponse]
              ELSE IF h = "promise"
              THEN /\ outcome' = [outcome EXCEPT ![s] = "pending"]
                   /\ calls' = [calls EXCEPT ![s] = <<>>]
                   /\ pc' = [pc EXCEPT ![s] = "handling"]
                   /\ response' = [response EXCEPT ![s] = NoResponse]
              ELSE /\ outcome' = [outcome EXCEPT ![s] = "returned"]
                   /\ calls' = [calls EXCEPT ![s] = fin.calls]
                   /\ pc' = [pc EXCEPT ![s] = fin.pc]
                   /\ response' = [response EXCEPT ![s] = rsp]
    /\ served' = served + 1
    /\ request' = [request EXCEPT ![s] = inp]
    /\ aborted' = [aborted EXCEPT ![s] = FALSE]
    /\ abortedAt' = [abortedAt EXCEPT ![s] = "never"]
    /\ produced' = [produced EXCEPT ![s] = <<>>]
    /\ bodyEnd' = [bodyEnd EXCEPT ![s] = "open"]
    /\ lastChunk' = [lastChunk EXCEPT ![s] = <<>>]
    /\ stream' = [stream EXCEPT ![s] = (IF inp.method \in {"GET", "HEAD"} THEN "none" ELSE "readable")]
    /\ queue' = [queue EXCEPT ![s] = <<>>]
    /\ reader' = [reader EXCEPT ![s] = "idle"]
    /\ reads' = [reads EXCEPT ![s] = <<>>]
    /\ delivered' = [delivered EXCEPT ![s] = <<>>]
    /\ buffers' = [buffers EXCEPT ![s] = <<>>]
    /\ lastSeen' = [lastSeen EXCEPT ![s] = FALSE]
    /\ dataThrew' = [dataThrew EXCEPT ![s] = FALSE]
    /\ UNCHANGED options

\* res.onAborted(() => (aborted = true)): the client went away before the
\* response was completed
Abort(s) ==
    /\ pc[s] \in {"handling", "streaming", "cancelling", "closed"}
    /\ ~aborted[s]
    /\ ~ResponseEnded(s)
    /\ aborted' = [aborted EXCEPT ![s] = TRUE]
    /\ abortedAt' = [abortedAt EXCEPT ![s] = pc[s]]
    /\ UNCHANGED <<options, closure, served, pc, request, url, ip, handlerCalls,
                   outcome, response, produced, bodyEnd, lastChunk, calls,
                   requestBody>>

\* responseOrPromise.then(finish): the handler's promise is fulfilled
HandlerResolve(s, rsp, fail, efail) ==
    /\ pc[s] = "handling"
    /\ LET fin == finish(aborted[s], rsp, fail, efail)
       IN  /\ calls' = [calls EXCEPT ![s] = calls[s] \o fin.calls]
           /\ pc' = [pc EXCEPT ![s] = fin.pc]
    /\ outcome' = [outcome EXCEPT ![s] = "resolved"]
    /\ response' = [response EXCEPT ![s] = rsp]
    /\ UNCHANGED <<options, closure, served, aborted, request, url, ip,
                   handlerCalls, produced, bodyEnd, lastChunk, abortedAt,
                   requestBody>>

\* responseOrPromise.then(finish).catch(handleError): the promise is rejected
HandlerReject(s, efail) ==
    /\ pc[s] = "handling"
    /\ calls' = [calls EXCEPT ![s] = calls[s] \o handleError(aborted[s], efail)]
    /\ pc' = [pc EXCEPT ![s] = "closed"]
    /\ outcome' = [outcome EXCEPT ![s] = "rejected"]
    /\ UNCHANGED <<options, closure, served, aborted, request, url, ip,
                   handlerCalls, response, produced, bodyEnd, lastChunk, abortedAt,
                   requestBody>>

\* for await (const chunk of response.body): the stream yields a chunk.
\* When the write of the held chunk throws, the loop is left through the
\* iterator's return(), which cancels response.body and is awaited: finish
\* rejects only once that has settled.
BodyChunk(s, chunk, fail) ==
    /\ pc[s] = "streaming"
    /\ Len(produced[s]) < MaxChunks
    /\ produced' = [produced EXCEPT ![s] = Append(produced[s], chunk)]
    /\ calls' = [calls EXCEPT ![s] = calls[s] \o Performed(WriteHeldCalls(lastChunk[s]), fail, aborted[s])]
    /\ IF fail # 0
       THEN /\ pc' = [pc EXCEPT ![s] = "cancelling"]
            /\ bodyEnd' = [bodyEnd EXCEPT ![s] = "cancelled"]
            /\ lastChunk' = [lastChunk EXCEPT ![s] = lastChunk[s]]
       ELSE /\ pc' = [pc EXCEPT ![s] = pc[s]]
            /\ bodyEnd' = [bodyEnd EXCEPT ![s] = bodyEnd[s]]
            /\ lastChunk' = [lastChunk EXCEPT ![s] = <<chunk>>]
    /\ UNCHANGED <<options, closure, served, aborted, request, url, ip,
                   handlerCalls, outcome, response, abortedAt, requestBody>>

\* the cancel of response.body has settled: the exception of the write
\* leaves finish, and .catch(handleError) runs
BodyCancelled(s, efail) ==
    /\ pc[s] = "cancelling"
    /\ calls' = [calls EXCEPT ![s] = calls[s] \o handleError(aborted[s], efail)]
    /\ pc' = [pc EXCEPT ![s] = "closed"]
    /\ UNCHANGED <<options, closure, served, aborted, request, url, ip,
                   handlerCalls, outcome, response, produced, bodyEnd, lastChunk,
                   abortedAt, requestBody>>

\* the stream ends: the loop is left and the held chunk is passed to end
BodyClose(s, fail, efail) ==
    /\ pc[s] = "streaming"
    /\ bodyEnd' = [bodyEnd EXCEPT ![s] = "closed"]
    /\ calls' = [calls EXCEPT ![s] = calls[s] \o Performed(EndHeldCalls(lastChunk[s]), fail, aborted[s])
                      \o (IF fail # 0 THEN handleError(aborted[s], efail) ELSE <<>>)]
    /\ pc' = [pc EXCEPT ![s] = "closed"]
    /\ UNCHANGED <<options, closure, served, aborted, request, url, ip,
                   handlerCalls, outcome, response, produced, lastChunk, abortedAt,
                   requestBody>>

\* the stream errors: the for await throws, finish rejects, handleError runs
BodyError(s, efail) ==
    /\ pc[s] = "streaming"
    /\ bodyEnd' = [bodyEnd EXCEPT ![s] = "errored"]
    /\ calls' = [calls EXCEPT ![s] = calls[s] \o handleError(aborted[s], efail)]
    /\ pc' = [pc EXCEPT ![s] = "closed"]
    /\ UNCHANGED <<options, closure, served, aborted, request, url, ip,
                   handlerCalls, outcome, response, produced, lastChunk, abortedAt,
                   requestBody>>

\* the bytes of the request body chunks the engine delivers
RequestChunks == { <<"A">>, <<"B">> }

\* what a chunk's ArrayBuffer may hold once the data callback has returned:
\* the engine may leave it alone, detach it (no bytes) or fill it again
BufferAfterCallback == RequestChunks \cup { <<>> }

\* the stream's queue with the new chunk in front of the waiting ones
EnqueueInFront(q, id) == <<id>> \o q

\* controller.enqueue(view): the chunk joins the end of the stream's queue
Enqueue(q, id) == Append(q, id)

\* what a read returns: which delivery it is and the bytes its view shows
ReadResult(id, bytes) == [id |-> id, bytes |-> bytes]

\* res.onData((chunk, isLast) => ...): the engine hands over a body chunk.
\* new Uint8Array(chunk) is a view onto the engine's buffer, which holds
\* `after` from the return of the callback on.
NativeData(s, chunk, isLast, after) ==
    /\ stream[s] # "none"
    /\ ~aborted[s]
    /\ ~lastSeen[s]
    /\ Len(delivered[s]) < MaxBodyChunks
    /\ delivered' = [delivered EXCEPT ![s] = Append(delivered[s], chunk)]
    /\ buffers' = [buffers EXCEPT ![s] = Append(buffers[s], after)]
    /\ lastSeen' = [lastSeen EXCEPT ![s] = isLast]
    /\ IF stream[s] = "readable"
       THEN /\ IF reader[s] = "pending"
               THEN /\ reads' = [reads EXCEPT ![s] = Append(reads[s], ReadResult(Len(delivered[s]) + 1, after))]
                    /\ reader' = [reader EXCEPT ![s] = "idle"]
                    /\ queue' = [queue EXCEPT ![s] = queue[s]]
               ELSE /\ queue' = [queue EXCEPT ![s] = Enqueue(queue[s], Len(delivered[s]) + 1)]
                    /\ UNCHANGED <<reads, reader>>
            /\ stream' = [stream EXCEPT ![s] = (IF isLast THEN "closed" ELSE "readable")]
            /\ dataThrew' = [dataThrew EXCEPT ![s] = dataThrew[s]]
       ELSE /\ dataThrew' = [dataThrew EXCEPT ![s] = TRUE]
            /\ UNCHANGED <<stream, queue, reader, reads>>
    /\ UNCHANGED <<options, closure, served, perRequest>>

\* the handler's consumer reads from context.request.body
ConsumerRead(s) ==
    /\ handlerCalls[s] # <<>>
    /\ stream[s] # "none"
    /\ reader[s] = "idle"
    /\ IF queue[s] # <<>>
       THEN /\ reads' = [reads EXCEPT ![s] = Append(reads[s], ReadResult(Head(queue[s]), buffers[s][Head(queue[s])]))]
            /\ queue' = [queue EXCEPT ![s] = Tail(queue[s])]
            /\ reader' = [reader EXCEPT ![s] = reader[s]]
       ELSE /\ reader' = [reader EXCEPT ![s] = (IF stream[s] = "readable" THEN "pending" ELSE "done")]
            /\ UNCHANGED <<reads, queue>>
    /\ UNCHANGED <<options, closure, served, perRequest, stream, delivered,
                   buffers, lastSeen, dataThrew>>

\* the handler's consumer cancels context.request.body
ConsumerCancel(s) ==
    /\ handlerCalls[s] # <<>>
    /\ stream[s] = "readable" \/ (stream[s] = "closed" /\ queue[s] # <<>>)
    /\ reader[s] = "idle"
    /\ stream' = [stream EXCEPT ![s] = "cancelled"]
    /\ queue' = [queue EXCEPT ![s] = <<>>]
    /\ UNCHANGED <<options, closure, served, perRequest, reader, reads,
                   delivered, buffers, lastSeen, dataThrew>>

(* --------------------------- specifications ----------------------------- *)

\* In every specification the engine delivers a request whenever it likes:
\* the earlier requests may be waiting for their handler's promise or be
\* streaming their response.  Each specification draws its inputs from sets
\* small enough for the requests in flight together to be explored.

\* the calls of a block that may throw: 0 for none, else the one that does
FailPoints(ops) == 0..Len(ops)
\* the same for handleError, which only runs once something has thrown
ErrorFailPoints(fail) == IF fail # 0 THEN FailPoints(ErrorCalls) ELSE {0}

\* the response a handler answers with when nothing else is said
PlainResponse == [status |-> 200, statusText |-> <<"OK">>, headers |-> <<>>, body |-> FALSE]

\* the same response with a body stream
StreamedResponse == [PlainResponse EXCEPT !.body = TRUE]

\* the request of the lifecycle and body specifications, but for its method
EchoRequest ==
    [method |-> "GET", headers |-> << <<"host", <<"a.example">> >> >>,
     path |-> <<"/", "echo">>, query |-> <<>>, remote |-> <<127, 0, 0, 1>>]

\* the requests of the lifecycle specification: methods new Request accepts
\* and methods it refuses, in either case
LifecycleRequests ==
    { [EchoRequest EXCEPT !.method = m] : m \in {"GET", "TRACE", "get", "post"} }

\* the lifecycle requests new Request accepts: GET and post
AcceptedRequests ==
    { r \in LifecycleRequests :
        ~RequestThrows(r.method, HeadersGet(r.headers, "host")) }

\* the responses of the lifecycle specification: without and with a body
LifecycleResponses == {PlainResponse, StreamedResponse}

\* handlers that throw or return a promise, which is fulfilled or rejected,
\* and clients that may go away at any moment; no native call fails
Next ==
    \/ \E s \in FreeSlots, inp \in LifecycleRequests :
          NewRequest(s, inp, "throw", NoResponse, 0, 0)
    \/ \E s \in FreeSlots, inp \in AcceptedRequests :
          NewRequest(s, inp, "promise", NoResponse, 0, 0)
    \/ \E s \in Slots : Abort(s)
    \/ \E s \in Slots, rsp \in LifecycleResponses : HandlerResolve(s, rsp, 0, 0)
    \/ \E s \in Slots : HandlerReject(s, 0)
    \/ \E s \in Slots : BodyChunk(s, <<"A">>, 0)
    \/ \E s \in Slots : BodyClose(s, 0, 0)

Spec == Init /\ [][Next]_vars

\* responses streamed to clients that may go away while the body is sent;
\* the write of a chunk may throw
NextAbort ==
    \/ \E s \in FreeSlots :
          NewRequest(s, EchoRequest, "return", StreamedResponse, 0, 0)
    \/ \E s \in Slots : Abort(s)
    \/ \E s \in Slots :
          \E fail \in FailPoints(WriteHeldCalls(lastChunk[s])) :
             BodyChunk(s, <<"A">>, fail)
    \/ \E s \in Slots : BodyCancelled(s, 0)
    \/ \E s \in Slots : BodyClose(s, 0, 0)

SpecAbort == Init /\ [][NextAbort]_vars

\* response bodies of any chunks, streamed to clients that stay
NextStream ==
    \/ \E s \in FreeSlots :
          NewRequest(s, EchoRequest, "return", StreamedResponse, 0, 0)
    \/ \E s \in Slots, chunk \in Chunks : BodyChunk(s, chunk, 0)
    \/ \E s \in Slots : BodyClose(s, 0, 0)

SpecStream == Init /\ [][NextStream]_vars

\* the responses of the head specification: every status line and header
\* list, with a body when there are no or three header lines
HeadResponses ==
    { r \in Responses :
        \/ /\ r.status = 200
           /\ r.statusText = <<"OK">>
           /\ r.body <=> Len(r.headers) \in {0, 3}
        \/ /\ r.status = 403
           /\ r.statusText = <<>>
           /\ r.headers = <<>>
           /\ ~r.body }

\* responses with any head, returned by the handler, whose body stream ends
\* or errors
NextHead ==
    \/ \E s \in FreeSlots, rsp \in HeadResponses :
          NewRequest(s, EchoRequest, "return", rsp, 0, 0)
    \/ \E s \in Slots : BodyChunk(s, <<"A">>, 0)
    \/ \E s \in Slots : BodyClose(s, 0, 0)
    \/ \E s \in Slots : BodyError(s, 0)

SpecHead == Init /\ [][NextHead]_vars

\* native calls that throw: in the head, in the body loop, at the end, and
\* in handleError itself
NextFailure ==
    \/ \E s \in FreeSlots, efail \in FailPoints(ErrorCalls) :
          NewRequest(s, EchoRequest, "throw", NoResponse, 0, efail)
    \/ \E s \in FreeSlots, rsp \in LifecycleResponses :
          \E fail \in FailPoints(HeadCalls(rsp)) :
             \E efail \in ErrorFailPoints(fail) :
                NewRequest(s, EchoRequest, "return", rsp, fail, efail)
    \/ \E s \in Slots :
          \E fail \in FailPoints(WriteHeldCalls(lastChunk[s])) :
             BodyChunk(s, <<"A">>, fail)
    \/ \E s \in Slots, efail \in FailPoints(ErrorCalls) : BodyCancelled(s, efail)
    \/ \E s \in Slots :
          \E fail \in FailPoints(EndHeldCalls(lastChunk[s])) :
             \E efail \in ErrorFailPoints(fail) : BodyClose(s, fail, efail)

SpecFailure == Init /\ [][NextFailure]_vars

\* the last four bytes of the addresses of the address specification
AddressTails ==
    { <<127, 0, 0, 1>>, <<10, 0, 2, 15>>, <<255, 255, 255, 255>>, <<0, 0, 0, 0>>,
      <<1, 2, 3, 4>>, <<192, 168, 100, 9>>, <<0, 255, 16, 171>> }

\* the first twelve bytes of the 16-byte addresses: the IPv4-mapped prefix,
\* prefixes one byte away from it, and plain IPv6 prefixes
AddressPrefixes ==
    { <<0, 0, 0, 0, 0, 0, 0, 0, 0, 0, 255, 255>>,
      <<0, 0, 0, 0, 0, 0, 0, 0, 0, 0, 255, 254>>,
      <<0, 0, 0, 0, 0, 0, 0, 0, 0, 1, 255, 255>>,
      <<1, 0, 0, 0, 0, 0, 0, 0, 0, 0, 255, 255>>,
      <<0, 0, 0, 0, 0, 0, 0, 0, 0, 0, 0, 0>>,
      <<32, 1, 13, 184, 0, 0, 0, 10, 171, 205, 0, 15>>,
      <<254, 128, 0, 0, 0, 0, 0, 0, 2, 0, 0, 255>>,
      <<0, 0, 0, 0, 128, 0, 0, 0, 0, 0, 255, 255>>,
      <<255, 255, 255, 255, 255, 255, 255, 255, 255, 255, 255, 255>> }

\* the IPv4-mapped prefix: ten zero bytes, then 0xff 0xff
MappedPrefix == <<0, 0, 0, 0, 0, 0, 0, 0, 0, 0, 255, 255>>

\* the tails that follow the prefixes other than the IPv4-mapped one
PlainTails == { <<10, 0, 2, 15>>, <<0, 255, 16, 171>> }

\* buffers res.getRemoteAddress() may hand to ipAddressBytesToString: 4 and
\* 16 bytes, and other lengths
AddressBuffers ==
    AddressTails
    \cup {MappedPrefix \o t : t \in AddressTails}
    \cup {p \o t : p \in AddressPrefixes \ {MappedPrefix}, t \in PlainTails}
    \cup { <<>>, <<7>>, <<1, 2, 3, 4, 5>>, <<0, 0, 0, 0, 0, 0, 0, 0, 0, 0, 255, 255>>,
           <<0, 0, 0, 0, 0, 0, 0, 0, 0, 0, 255, 255, 1, 2, 3, 4, 5>> }

\* the requests of the address specification
AddressRequests ==
    { [BlankRequest EXCEPT !.remote = b] : b \in AddressBuffers }

\* requests from any peer address, answered at once with a plain response
NextAddress ==
    \E s \in FreeSlots, inp \in AddressRequests :
       NewRequest(s, inp, "return", PlainResponse, 0, 0)

SpecAddress == Init /\ [][NextAddress]_vars

\* the peer addresses a header list comes from in the origin specification:
\* every address, but for the lists that only differ from a.example's in the
\* text of the host header
OriginAddresses(h) ==
    IF Len(h) = 1 /\ h[1][2] # <<"a.example">>
    THEN { <<127, 0, 0, 1>> }
    ELSE RemoteAddresses

\* the requests of the origin specification: every header list, for /echo
\* with a query, and the other paths without one
OriginRequests ==
    UNION { { [method |-> "GET", headers |-> h, path |-> <<"/", "echo">>,
               query |-> <<"foo=bar">>, remote |-> a] : a \in OriginAddresses(h) } :
            h \in RequestHeaderLists }
    \cup { [EchoRequest EXCEPT !.path = p] : p \in Paths \ { <<"/", "echo">> } }

\* requests answered at once by a handler that returns a plain response
NextOrigin ==
    \E s \in FreeSlots, inp \in OriginRequests :
       NewRequest(s, inp, "return", PlainResponse, 0, 0)

SpecOrigin == InitOrigin /\ [][NextOrigin]_vars

\* the requests of the body specifications
BodyRequests == { [EchoRequest EXCEPT !.method = m] : m \in {"POST"} }

\* the body the clients of the body specification send: the k-th chunk
SentChunk(k) == IF k % 2 = 1 THEN <<"A">> ELSE <<"B">>

\* requests with a body, whose handler reads the body while its promise is
\* pending and whose client may go away; the engine leaves a chunk's buffer
\* alone
NextBody ==
    \/ \E s \in FreeSlots, inp \in BodyRequests :
          NewRequest(s, inp, "promise", NoResponse, 0, 0)
    \/ \E s \in Slots, isLast \in BOOLEAN :
          NativeData(s, SentChunk(Len(delivered[s]) + 1), isLast,
                     SentChunk(Len(delivered[s]) + 1))
    \/ \E s \in Slots : ConsumerRead(s)
    \/ \E s \in Slots : Abort(s)

SpecBody == Init /\ [][NextBody]_vars

\* requests with a body of which the engine takes every chunk's buffer back
\* when the data callback returns: it detaches the buffer or fills it again
NextBuffer ==
    \/ \E s \in FreeSlots, inp \in BodyRequests :
          NewRequest(s, inp, "promise", NoResponse, 0, 0)
    \/ \E s \in Slots, after \in BufferAfterCallback \ { <<"A">> } :
          NativeData(s, <<"A">>, FALSE, after)
    \/ \E s \in Slots : ConsumerRead(s)

SpecBuffer == Init /\ [][NextBuffer]_vars

\* requests with a body whose handler cancels the body or answers without
\* reading it
NextCancel ==
    \/ \E s \in FreeSlots, inp \in BodyRequests :
          NewRequest(s, inp, "promise", NoResponse, 0, 0)
    \/ \E s \in Slots, isLast \in BOOLEAN :
          NativeData(s, <<"A">>, isLast, <<"A">>)
    \/ \E s \in Slots : ConsumerCancel(s)
    \/ \E s \in Slots : HandlerResolve(s, PlainResponse, 0, 0)

SpecCancel == Init /\ [][NextCancel]_vars

(* ------------------------------ properties ------------------------------ *)

\* every native call made so far returned normally
AllCallsOk(s) == \A i \in 1..Len(calls[s]) : calls[s][i].ok

\* how many times a native method has been called
CountOp(s, op) == Cardinality({i \in 1..Len(calls[s]) : calls[s][i].op = op})

\* the body calls made so far (write and end), as <<method, arguments>>
BodyCalls(s) ==
    LET body == SelectSeq(calls[s], LAMBDA c : c.op \in {"write", "end"})
    IN  [i \in 1..Len(body) |-> <<body[i].op, body[i].args>>]

\* C1: when the abort callback fires while the handler's promise is still
\* pending, no native call is ever made for the request, whether the promise
\* is later fulfilled with a response or rejected, and whatever other
\* requests are in flight at the same time.
C1_NoCallAfterAbortWhilePending ==
    \A s \in Slots :
        abortedAt[s] = "handling" => calls[s] = <<>>

C1_Witness ==
    \E s \in Slots :
        /\ abortedAt[s] = "handling"
        /\ outcome[s] = "resolved"
        /\ response[s].body
        /\ pc[s] = "closed"
        /\ \E t \in Slots \ {s} :
              /\ pc[t] = "streaming"
              /\ abortedAt[t] = "never"
              /\ CountOp(t, "write") > 0

\* C2: while the body is streamed the abort flag is checked before every
\* chunk write, so no write or end call is made once the flag is set.
C2_NoBodyCallAfterAbort ==
    \A s \in Slots :
        \A i \in 1..Len(calls[s]) :
            calls[s][i].op \in {"write", "end"} => ~calls[s][i].aborted

\* C3: over an execution in which no native call fails, the status line is
\* written at most once and end is called at most once, also when the body
\* stream errors after finish has written the status and headers.
C3_OneResponse ==
    \A s \in Slots :
        AllCallsOk(s) => CountOp(s, "writeStatus") <= 1 /\ CountOp(s, "end") <= 1

\* C4: a body stream that yields c1..cn (n > 0) and ends, with no abort and
\* no failing native call, gives write(c1) .. write(c(n-1)), end(cn) and no
\* other body call; while the stream is open exactly the last chunk is held
\* back and the earlier ones have been written in order.
C4_HoldBackOne ==
    \A s \in Slots :
        (/\ outcome[s] \in {"returned", "resolved"}
         /\ response[s].body
         /\ abortedAt[s] = "never"
         /\ AllCallsOk(s)
         /\ produced[s] # <<>>)
        => LET n == Len(produced[s])
           IN  /\ bodyEnd[s] = "open" =>
                    /\ lastChunk[s] = <<produced[s][n]>>
                    /\ BodyCalls(s) = [i \in 1..(n - 1) |-> <<"write", <<produced[s][i]>> >>]
               /\ bodyEnd[s] = "closed" =>
                    BodyCalls(s) = [i \in 1..n |->
                                    <<IF i < n THEN "write" ELSE "end", <<produced[s][i]>> >>]

C4_Witness ==
    \E s \in Slots :
        /\ bodyEnd[s] = "closed"
        /\ abortedAt[s] = "never"
        /\ AllCallsOk(s)
        /\ Len(produced[s]) = 3
        /\ produced[s][1] # produced[s][2]
        /\ BodyCalls(s) = << <<"write", <<produced[s][1]>> >>, <<"write", <<produced[s][2]>> >>,
                          <<"end", <<produced[s][3]>> >> >>

\* C5: a response without a body, and equally one whose body stream ends
\* without yielding a chunk, is completed by exactly one end call and no write
\* call (no abort, no failing native call).
C5_EmptyBodyCompletes ==
    \A s \in Slots :
        (/\ outcome[s] \in {"returned", "resolved"}
         /\ pc[s] = "closed"
         /\ ~aborted[s]
         /\ AllCallsOk(s)
         /\ (~response[s].body \/ (bodyEnd[s] = "closed" /\ produced[s] = <<>>)))
        => CountOp(s, "end") = 1 /\ CountOp(s, "write") = 0

\* C6: for every request the engine delivered, the handler has been invoked
\* exactly once, with the ip, url, method and handles of that request.
C6_HandlerInvokedOnce ==
    \A s \in Slots :
        pc[s] # "idle" =>
            \E id \in 1..served :
                handlerCalls[s] = <<Context(ip[s], url[s], request[s].method, id)>>

\* C7: when the handler throws or its promise rejects and no native call
\* fails, the calls made are writeStatus("500 Internal Server Error") and
\* end() without a body if the abort flag was clear when the error was
\* captured, and none at all if it was set.
C7_ErrorResponse ==
    \A s \in Slots :
        (outcome[s] \in {"threw", "rejected"} /\ AllCallsOk(s))
        => IF abortedAt[s] = "handling"
           THEN calls[s] = <<>>
           ELSE /\ Len(calls[s]) = 2
                /\ calls[s][1].op = "writeStatus"
                /\ SubSeq(calls[s][1].args[1], 1, 3) = <<"5", "0", "0">>
                /\ calls[s][2].op = "end"
                /\ calls[s][2].args = <<>>
                /\ ~calls[s][1].aborted /\ ~calls[s][2].aborted

C7_Witness ==
    \E s \in Slots, t \in Slots :
        /\ outcome[s] = "rejected"
        /\ abortedAt[s] = "never"
        /\ AllCallsOk(s)
        /\ CountOp(s, "writeStatus") = 1
        /\ CountOp(s, "end") = 1
        /\ outcome[t] = "rejected"
        /\ abortedAt[t] = "handling"
        /\ calls[t] = <<>>

\* the first comma-separated value of a header, without surrounding blanks
FirstListValue(headers, name) == Trim(SplitFirst(HeadersGet(headers, name)))

\* the peer address of the current request as text
PeerAddress(s) == ipAddressBytesToString(request[s].remote)

\* C8: the URL resolved for a request depends only on the options of the
\* server and on the request's own headers, path, query and peer address: it
\* is what the resolution gives from the closure as it was constructed,
\* whatever requests were handled before.
C8_OwnInputsOnly ==
    \A s \in Slots :
        pc[s] # "idle" =>
            url[s] = BuildUrl(
                    ResolveProtocol(ConstructedProtocol(origin), trustProxy, ssl,
                                    request[s].headers),
                    ResolveHost(ConstructedHost(origin), trustProxy,
                                request[s].headers, PeerAddress(s)),
                    request[s].path, request[s].query)

\* C9: for every request, the first and every later one, the scheme is the
\* origin's scheme, else (trustProxy) the first value of x-forwarded-proto,
\* else "https" with ssl, else "http"; the host is the origin's host, else
\* (trustProxy) the first value of x-forwarded-host, else the request's host
\* header, else the peer address, else "localhost"; and the URL is
\* scheme://host, the path, and "?" and the query when there is a query.
C9_OriginPrecedence ==
    \A s \in Slots :
        pc[s] # "idle" =>
            LET fwdProto == FirstListValue(request[s].headers, "x-forwarded-proto")
                fwdHost == FirstListValue(request[s].headers, "x-forwarded-host")
                hostHeader == HeadersGet(request[s].headers, "host")
                scheme == IF origin # <<>> THEN ConstructedProtocol(origin)
                          ELSE IF trustProxy /\ fwdProto # <<>> THEN fwdProto
                          ELSE IF ssl THEN <<"https">>
                          ELSE <<"http">>
                authority == IF origin # <<>> THEN ConstructedHost(origin)
                             ELSE IF trustProxy /\ fwdHost # <<>> THEN fwdHost
                             ELSE IF hostHeader # <<>> THEN hostHeader
                             ELSE IF PeerAddress(s) # <<>> THEN PeerAddress(s)
                             ELSE <<"localhost">>
            IN  url[s] = scheme \o <<"://">> \o authority \o request[s].path
                      \o (IF request[s].query # <<>> THEN <<"?">> \o request[s].query ELSE <<>>)

\* the tokens of a text
Tokens(t) == {t[i] : i \in 1..Len(t)}

\* C10: with trustProxy off, no x-forwarded-* header influences a request,
\* after any sequence of requests: the scheme is the origin's or follows the
\* ssl flag, the host is the origin's, a host header, a peer address or
\* "localhost", nothing that only a forwarded header carries appears in the
\* URL or the ip, and the ip is the peer address.
C10_ForwardedHeadersIgnored ==
    \A s \in Slots :
        (~trustProxy /\ pc[s] # "idle") =>
            /\ protocol = (IF origin # <<>> THEN ConstructedProtocol(origin)
                           ELSE IF ssl THEN <<"https">> ELSE <<"http">>)
            /\ Tokens(host) \cap ForwardedTokens = {}
            /\ Tokens(url[s]) \cap ForwardedTokens = {}
            /\ Tokens(ip[s]) \cap ForwardedTokens = {}
            /\ ip[s] = PeerAddress(s)

C10_Witness ==
    \E s \in Slots :
        /\ ~trustProxy
        /\ origin = <<>>
        /\ served = 2
        /\ HeaderValues(request[s].headers, "x-forwarded-host") # <<>>
        /\ HeaderValues(request[s].headers, "x-forwarded-proto") # <<>>
        /\ HeaderValues(request[s].headers, "x-forwarded-for") # <<>>
        /\ HeadersGet(request[s].headers, "host") = <<>>
        /\ url[s] # <<>>

\* C11 as stated: with trustProxy on and a non-empty x-forwarded-for header
\* the ip handed to the handler is the first comma-separated value of the
\* header without surrounding blanks; otherwise it is the peer address, or
\* the empty string without one.
C11_IpAsStated ==
    \A s \in Slots :
        pc[s] # "idle" =>
            ip[s] = (IF trustProxy /\ HeadersGet(request[s].headers, "x-forwarded-for") # <<>>
                  THEN FirstListValue(request[s].headers, "x-forwarded-for")
                  ELSE PeerAddress(s))

\* C11 amended: with trustProxy on and a non-empty first value of
\* x-forwarded-for (after removing surrounding blanks) the ip is that value;
\* otherwise, also when the header is present but its first value is empty,
\* it is the peer address, or the empty string without one.
C11_IpFirstNonEmpty ==
    \A s \in Slots :
        pc[s] # "idle" =>
            ip[s] = (IF trustProxy /\ FirstListValue(request[s].headers, "x-forwarded-for") # <<>>
                  THEN FirstListValue(request[s].headers, "x-forwarded-for")
                  ELSE PeerAddress(s))

C11_Witness ==
    \E s \in Slots :
        /\ served = 2
        /\ trustProxy
        /\ HeadersGet(request[s].headers, "x-forwarded-for") = <<"1.2.3.4", ",", " ", "5.6.7.8">>
        /\ request[s].remote = <<127, 0, 0, 1>>
        /\ ip[s] = <<"1.2.3.4">>

\* the values written by writeHeader under a name, in call order
HeaderLines(s, name) ==
    LET lines == SelectSeq(calls[s], LAMBDA c : c.op = "writeHeader" /\ c.name = name)
    IN  [i \in 1..Len(lines) |-> lines[i].args[1]]

\* the names a header list holds
HeaderNames(headers) == {headers[i][1] : i \in 1..Len(headers)}

\* C12: when finish has written the head of a response (no failing native
\* call), the k values held under set-cookie are k writeHeader lines, one per
\* value in the order they were appended, every other name of the response
\* has exactly one line, and no other name is written.
C12_SetCookieLines ==
    \A s \in Slots :
        (outcome[s] \in {"returned", "resolved"} /\ calls[s] # <<>> /\ AllCallsOk(s))
        => /\ HeaderLines(s, "set-cookie") = HeaderValues(response[s].headers, "set-cookie")
           /\ \A n \in HeaderNames(response[s].headers) \ {"set-cookie"} :
                 Len(HeaderLines(s, n)) = 1
           /\ \A i \in 1..Len(calls[s]) :
                 calls[s][i].op = "writeHeader" => calls[s][i].name \in HeaderNames(response[s].headers)

C12_Witness ==
    \E s \in Slots :
        /\ outcome[s] = "returned"
        /\ AllCallsOk(s)
        /\ HeaderLines(s, "set-cookie") = << <<"name1=value1">>, <<"name2=value2">> >>
        /\ Len(HeaderLines(s, "content-type")) = 1

\* the value of a digit
DigitValue(d) == CHOOSE v \in 0..15 : Digits[v + 1] = d

RECURSIVE ParseNumber(_, _)
\* the number a non-empty text of digits denotes in a radix
ParseNumber(t, radix) ==
    IF Len(t) = 1 THEN DigitValue(t[1])
    ELSE ParseNumber(SubSeq(t, 1, Len(t) - 1), radix) * radix + DigitValue(t[Len(t)])

\* a non-empty text of digits of a radix (lowercase for the letters)
IsNumeral(t, radix) ==
    /\ t # <<>>
    /\ \A i \in 1..Len(t) : \E v \in 0..(radix - 1) : Digits[v + 1] = t[i]

\* t is a dotted quad whose four decimal fields are the four bytes
IsDottedQuadOf(t, four) ==
    LET fields == SplitAll(t, ".")
    IN  /\ Len(fields) = 4
        /\ \A i \in 1..4 :
              /\ IsNumeral(fields[i], 10)
              /\ ParseNumber(fields[i], 10) \in 0..255
              /\ ParseNumber(fields[i], 10) = four[i]

\* t is eight colon-separated lowercase hexadecimal groups, one per two bytes
IsColonHexOf(t, sixteen) ==
    LET groups == SplitAll(t, ":")
    IN  /\ Len(groups) = 8
        /\ \A i \in 1..8 :
              /\ IsNumeral(groups[i], 16)
              /\ ParseNumber(groups[i], 16) = sixteen[2 * i - 1] * 256 + sixteen[2 * i]

\* 16 bytes, the first ten zero, then 0xff 0xff
IsIPv4Mapped(b) ==
    /\ Len(b) = 16
    /\ \A i \in 1..10 : b[i] = 0
    /\ b[11] = 255 /\ b[12] = 255

\* C13: the text resolved for the peer address of a request (the ip handed
\* to the handler when no proxy is trusted) is, for an IPv4-mapped 16-byte
\* buffer, the dotted quad of its last four bytes and the same text as the
\* plain 4-byte buffer gives; for a 4-byte buffer a dotted quad of fields in
\* 0..255; for any other 16-byte buffer eight colon-separated lowercase
\* hexadecimal groups of two bytes each; for any other length the empty text.
C13_AddressText ==
    \A s \in Slots :
        pc[s] # "idle" =>
            LET b == request[s].remote
            IN  IF IsIPv4Mapped(b)
                THEN /\ IsDottedQuadOf(ip[s], SubSeq(b, 13, 16))
                     /\ ip[s] = ipAddressBytesToString(SubSeq(b, 13, 16))
                ELSE IF Len(b) = 4 THEN IsDottedQuadOf(ip[s], b)
                ELSE IF Len(b) = 16 THEN IsColonHexOf(ip[s], b)
                ELSE ip[s] = <<>>

C13_Witness ==
    \E s \in Slots :
        /\ served > 0
        /\ IsIPv4Mapped(request[s].remote)
        /\ SubSeq(request[s].remote, 13, 16) = <<192, 168, 100, 9>>
        /\ ip[s] = <<"1", "9", "2", ".", "1", "6", "8", ".", "1", "0", "0", ".", "9">>

\* C15: a native call that throws is the last native call made for the
\* request: nothing is written after it, in particular no 500 status line and
\* no end by handleError.
C15_NoCallAfterFailure ==
    \A s \in Slots :
        \A i \in 1..Len(calls[s]) : ~calls[s][i].ok => i = Len(calls[s])

\* the last call of the first cork scope: the calls after the first one that
\* ran inside a cork callback, up to the first call that did not
HeadScopeEnd(s) ==
    CHOOSE k \in 1..Len(calls[s]) :
        /\ \A i \in 2..k : calls[s][i].corked
        /\ k = Len(calls[s]) \/ ~calls[s][k + 1].corked

\* a call that carries body bytes
CarriesBody(c) == c.op = "write" \/ (c.op = "end" /\ c.args # <<>>)

\* C16: in what finish writes, the first call is cork and its scope holds
\* the status line first and then every header line and nothing that carries
\* body bytes; every call that carries body bytes comes after that scope, in
\* a cork of its own.
C16_HeadInOneCork ==
    \A s \in Slots :
        (outcome[s] \in {"returned", "resolved"} /\ calls[s] # <<>>)
        => /\ calls[s][1].op = "cork"
           /\ calls[s][1].ok => (calls[s][2].op = "writeStatus" /\ calls[s][2].corked)
           /\ \A i \in 1..Len(calls[s]) :
                 /\ (calls[s][i].op = "writeStatus" /\ calls[s][i].corked) => i = 2
                 /\ calls[s][i].op = "writeHeader" => i \in 3..HeadScopeEnd(s)
                 /\ i \in 2..HeadScopeEnd(s) => ~CarriesBody(calls[s][i])
                 /\ CarriesBody(calls[s][i]) =>
                       (i > HeadScopeEnd(s) + 1 /\ calls[s][i - 1].op = "cork" /\ calls[s][i].corked)

C16_Witness ==
    \E s \in Slots :
        /\ outcome[s] = "returned"
        /\ AllCallsOk(s)
        /\ Len(response[s].headers) = 3
        /\ CountOp(s, "writeHeader") = 3
        /\ CountOp(s, "write") = 1
        /\ CountOp(s, "end") = 1

\* C20: once everything scheduled for a request has run (the handler's result
\* is available, the response body stream, if any, has ended or errored),
\* with no abort and no failing native call, end has been called: the
\* response is not left open.
C20_ResponseCompleted ==
    \A s \in Slots :
        (pc[s] = "closed" /\ ~aborted[s] /\ AllCallsOk(s)) => ResponseEnded(s)


\* C14: once the client has aborted before the last body chunk, the request
\* body stream is errored: it is not left readable, closed or cancelled, and
\* no read is left pending.
C14_AbortErrorsBody ==
    \A s \in Slots :
        (aborted[s] /\ stream[s] # "none" /\ ~lastSeen[s])
        => (stream[s] = "errored" /\ reader[s] # "pending")


\* the delivery numbers of a sequence of read results
ReadIds(s) == [i \in 1..Len(reads[s]) |-> reads[s][i].id]

\* C17: for a body stream the consumer has not cancelled, the chunks read so
\* far followed by the chunks still queued are the delivered chunks, each
\* once, in delivery order; the stream is closed exactly when the last-chunk
\* signal has arrived, and the reader is told end-of-stream only then and
\* only after it has read every chunk.
C17_BodyInOrder ==
    \A s \in Slots :
        (stream[s] \in {"readable", "closed"})
        => /\ ReadIds(s) \o queue[s] = [i \in 1..Len(delivered[s]) |-> i]
           /\ (stream[s] = "closed") <=> lastSeen[s]
           /\ reader[s] = "done" => (lastSeen[s] /\ Len(reads[s]) = Len(delivered[s]))

C17_Witness ==
    \E s \in Slots :
        /\ stream[s] = "closed"
        /\ reader[s] = "done"
        /\ Len(delivered[s]) = 2
        /\ ReadIds(s) = <<1, 2>>
        /\ delivered[s][1] # delivered[s][2]
        /\ ~dataThrew[s]

\* the most chunks the stream's queuing strategy wants buffered: the default
\* highWaterMark of new ReadableStream(underlyingSource)
QueueHighWaterMark == 1

\* C18: the chunks buffered for one request stay below a fixed bound: the
\* translator does not enqueue beyond what the stream's queuing strategy
\* asks for while the consumer is not reading.
C18_BoundedQueue ==
    \A s \in Slots :
        Len(queue[s]) <= QueueHighWaterMark

\* C19: the bytes a read returns for a chunk are the bytes the engine
\* delivered in that chunk's data callback, whatever the engine did to the
\* chunk's buffer after the callback returned.
C19_OwnedCopy ==
    \A s \in Slots :
        \A i \in 1..Len(reads[s]) : reads[s][i].bytes = delivered[s][reads[s][i].id]


\* C21: the native data callback never throws, whatever the state of the
\* request body stream when a chunk or the last-chunk signal arrives: after
\* the consumer cancelled the stream, after the handler finished without
\* reading it, or after the response was completed.
C21_DataCallbackNeverThrows ==
    \A s \in Slots :
        ~dataThrew[s]

====
